---- MODULE Spec2Model ----
(***************************************************************************)
(* Constant-expression trees of src/compiler/expressions.py.               *)
(*                                                                         *)
(* A node is a record with the fields of the Python object:               *)
(*   kind             the concrete class (Add, Eq, WidthCast, ...)         *)
(*   op               self.op, the operand list                            *)
(*   val, width       IntLiteral.val / IntLiteral.width                    *)
(*   cast_width       WidthCast.cast_width                                 *)
(*   dest_type        AssignmentCast.dest_type                             *)
(*   expr_eval_width  _Expr.expr_eval_width                                *)
(* Python's None is written None (-1): widths and literal values are       *)
(* never negative.  A Python value is a record [ty, n]: ty is "int",       *)
(* "bool", "str" or "enum"; an exception is a record whose ty is the       *)
(* exception class.  Every method is an operator that returns              *)
(* [t |-> the node after the call, v |-> what the call returned or raised] *)
(* so that the widths a call caches before it raises are kept.             *)
(***************************************************************************)
EXTENDS Integers, Sequences, FiniteSets, TLC

VARIABLES
    tree,    \* the expression tree the parser built (the root node)
    phase,   \* what the consumer has done to it: "parsed", "typed", "resolved",
             \* "propagated", "measured", "evaluated", "truncated"
    ptype,   \* what predict_type() on the root returned or raised
    arg,     \* the argument of the last call that takes one (w or v)
    result   \* what the last width or value call returned or raised

vars == <<tree, phase, ptype, arg, result>>

\* ---- bounds of the model ----
MaxVal == 3
MaxWidth == 2
MaxDepth == 2

None == 0 - 1

\* ---------------------------------------------------------------------------
\* Python values and exceptions
IntV(n) == [ty |-> "int", n |-> n]
BoolV(b) == [ty |-> "bool", n |-> IF b THEN 1 ELSE 0]
StrV == [ty |-> "str", n |-> 0]
EnumV == [ty |-> "enum", n |-> 0]
NoneV == [ty |-> "None", n |-> 0]
Raise(e) == [ty |-> e, n |-> 0]

Exceptions == {"RDLCompileError", "NotImplementedError", "TypeError",
               "ZeroDivisionError", "ValueError"}
IsErr(v) == v.ty \in Exceptions

\* int(x) and bool(x) of a Python value
PyInt(v) == IF v.ty \in {"int", "bool"} THEN IntV(v.n) ELSE Raise("ValueError")
PyBool(v) == IF v.ty \in {"int", "bool"} THEN BoolV(v.n # 0) ELSE BoolV(TRUE)

Max(a, b) == IF a >= b THEN a ELSE b

RECURSIVE Pow(_, _)
Pow(b, e) == IF e <= 0 THEN 1 ELSE b * Pow(b, e - 1)

\* Python's & | ^ ~ on unbounded two's-complement integers
RECURSIVE BitAnd(_, _)
BitAnd(a, b) ==
    IF a = 0 \/ b = 0 THEN 0
    ELSE IF a = 0 - 1 THEN b
    ELSE IF b = 0 - 1 THEN a
    ELSE (a % 2) * (b % 2) + 2 * BitAnd(a \div 2, b \div 2)

BitNot(a) == 0 - a - 1

RECURSIVE BitXor(_, _)
BitXor(a, b) ==
    IF a = 0 THEN b
    ELSE IF b = 0 THEN a
    ELSE IF a = 0 - 1 THEN BitNot(b)
    ELSE IF b = 0 - 1 THEN BitNot(a)
    ELSE (((a % 2) + (b % 2)) % 2) + 2 * BitXor(a \div 2, b \div 2)

BitOr(a, b) == BitNot(BitAnd(BitNot(a), BitNot(b)))

\* ---------------------------------------------------------------------------
\* The classes
BinaryIntKinds == {"Add", "Sub", "Mult", "Div", "Mod", "BitwiseAnd",
                   "BitwiseOr", "BitwiseXor", "BitwiseXnor"}
UnaryIntKinds == {"UnaryPlus", "UnaryMinus", "BitwiseInvert"}
RelationalKinds == {"Eq", "Neq", "Lt", "Gt", "Leq", "Geq"}
ReductionKinds == {"AndReduce", "NandReduce", "OrReduce", "NorReduce",
                   "XorReduce", "XnorReduce", "BoolNot"}
BoolKinds == {"BoolAnd", "BoolOr"}
ExpShiftKinds == {"Exponent", "LShift", "RShift"}

\* the types predict_type returns: int, bool, tp.Bit, str, type(enum), tp.Array
NumericLike == {"int", "bool", "Bit"}
DestTypes == {"int", "bool", "Bit", "str", "enum", "Array"}

\* _Expr.__init__ and the constructors of the subclasses
Node(kind, op) ==
    [kind |-> kind, op |-> op, val |-> 0, width |-> 0, cast_width |-> None,
     dest_type |-> "int", expr_eval_width |-> None]

IntLiteral(val, width) == [Node("IntLiteral", <<>>) EXCEPT !.val = val, !.width = width]
BuiltinEnumLiteral == Node("BuiltinEnumLiteral", <<>>)
StringLiteral == Node("StringLiteral", <<>>)
WidthCastInt(v, w_int) == [Node("WidthCast", <<v>>) EXCEPT !.cast_width = w_int]
WidthCastExpr(v, w_expr) == Node("WidthCast", <<v, w_expr>>)
AssignmentCast(v, dest_type) == [Node("AssignmentCast", <<v>>) EXCEPT !.dest_type = dest_type]

SetOp(t, i, c) == [t EXCEPT !.op[i] = c]
Ret(t, v) == [t |-> t, v |-> v]

\* trunc with the mask 1 << width, the "- 1" forgotten
trunc_MaskOffByOne(t, v) ==
    IF t.expr_eval_width = None THEN Raise("TypeError")
    ELSE IntV(BitAnd(v, Pow(2, t.expr_eval_width)))

\* _Expr.trunc
trunc(t, v) ==
    IF t.expr_eval_width = None THEN Raise("TypeError")
    ELSE IntV(BitAnd(v, Pow(2, t.expr_eval_width) - 1))

\* ---------------------------------------------------------------------------
\* predict_type: a type of DestTypes, or the exception raised
TypeErrors == {"RDLCompileError", "NotImplementedError"}

RECURSIVE predict_type(_)

\* `if(self.op[i].predict_type() not in [int, bool, tp.Bit]): raise ...` for the
\* operands idxs in order, then `return(ty)`; an exception of an operand's own
\* predict_type propagates
RECURSIVE CheckNumeric(_, _, _)
CheckNumeric(t, idxs, ty) ==
    IF idxs = <<>> THEN ty
    ELSE LET p == predict_type(t.op[Head(idxs)])
         IN  IF p \in TypeErrors THEN p
             ELSE IF p \notin NumericLike THEN "RDLCompileError"
             ELSE CheckNumeric(t, Tail(idxs), ty)

\* a ternary that type-checks the condition and the true branch only
TernaryExpr_predict_type_SkipsFalseBranch(t) ==
    LET c == CheckNumeric(t, <<1>>, "ok")
        t_j == predict_type(t.op[2])
    IN  IF c # "ok" THEN c
        ELSE IF t_j \in {"int", "bool"} THEN "int"
        ELSE t_j

TernaryExpr_predict_type(t) ==
    LET c == CheckNumeric(t, <<1>>, "ok")
        t_j == predict_type(t.op[2])
        t_k == predict_type(t.op[3])
        num_t == {"int", "bool"}
    IN  IF c # "ok" THEN c
        ELSE IF t_j \in TypeErrors THEN t_j
        ELSE IF t_k \in TypeErrors THEN t_k
        ELSE IF t_j \in num_t /\ t_k \in num_t THEN "int"
        ELSE IF t_j # t_k THEN "RDLCompileError"
        ELSE t_j

WidthCast_predict_type(t) ==
    IF t.cast_width = None THEN CheckNumeric(t, <<2, 1>>, "int")
    ELSE CheckNumeric(t, <<1>>, "int")

AssignmentCast_predict_type(t) ==
    LET op_type == predict_type(t.op[1])
    IN  IF op_type \in TypeErrors THEN op_type
        ELSE IF t.dest_type \in NumericLike
             THEN IF op_type \notin NumericLike THEN "RDLCompileError" ELSE t.dest_type
        ELSE IF t.dest_type = "Array"
             THEN IF op_type # "Array" THEN "RDLCompileError" ELSE "NotImplementedError"
        ELSE IF t.dest_type # op_type THEN "RDLCompileError"
        ELSE t.dest_type

predict_type(t) ==
    CASE t.kind = "IntLiteral" -> "int"
      [] t.kind = "BuiltinEnumLiteral" -> "enum"
      [] t.kind = "StringLiteral" -> "str"
      [] t.kind \in BinaryIntKinds -> CheckNumeric(t, <<1, 2>>, "int")
      [] t.kind \in UnaryIntKinds -> CheckNumeric(t, <<1>>, "int")
      [] t.kind \in RelationalKinds -> CheckNumeric(t, <<1, 2>>, "bool")
      [] t.kind \in ReductionKinds -> CheckNumeric(t, <<1>>, "int")
      [] t.kind \in BoolKinds -> CheckNumeric(t, <<1, 2>>, "bool")
      [] t.kind \in ExpShiftKinds -> CheckNumeric(t, <<1, 2>>, "int")
      [] t.kind = "TernaryExpr" -> TernaryExpr_predict_type(t)
      [] t.kind = "WidthCast" -> WidthCast_predict_type(t)
      [] t.kind = "BoolCast" -> CheckNumeric(t, <<1>>, "bool")
      [] t.kind = "AssignmentCast" -> AssignmentCast_predict_type(t)

\* ---------------------------------------------------------------------------
\* Width resolution and evaluation.  Python's self.op[i] is op[i+1] here.
\* A method call on a node: the class of the node picks the body (Call, below).
RECURSIVE Call(_, _, _)

get_min_eval_width(t) == Call("get_min_eval_width", t, None)
resolve_expr_width(t) == Call("resolve_expr_width", t, None)
propagate_eval_width(t, w) == Call("propagate_eval_width", t, w)
get_value(t) == Call("get_value", t, None)

\* `for op in self.op: op.propagate_eval_width(w)` over the operands idxs
RECURSIVE PropagateOps(_, _, _)
PropagateOps(t, idxs, w) ==
    IF idxs = <<>> THEN Ret(t, NoneV)
    ELSE LET i == Head(idxs)
             r == propagate_eval_width(t.op[i], w)
             t1 == SetOp(t, i, r.t)
         IN  IF IsErr(r.v) THEN Ret(t1, r.v) ELSE PropagateOps(t1, Tail(idxs), w)

\* self.op[i].resolve_expr_width() for the operands idxs, in order
RECURSIVE ResolveOps(_, _)
ResolveOps(t, idxs) ==
    IF idxs = <<>> THEN Ret(t, NoneV)
    ELSE LET i == Head(idxs)
             r == resolve_expr_width(t.op[i])
             t1 == SetOp(t, i, r.t)
         IN  IF IsErr(r.v) THEN Ret(t1, r.v) ELSE ResolveOps(t1, Tail(idxs))

\* the first loop of _Expr.resolve_expr_width, from operand i on
RECURSIVE MinWidthLoop(_, _)
MinWidthLoop(t, i) ==
    IF i > Len(t.op) THEN Ret(t, NoneV)
    ELSE LET r == get_min_eval_width(t.op[i])
             t1 == SetOp(t, i, r.t)
         IN  IF IsErr(r.v) THEN Ret(t1, r.v)
             ELSE MinWidthLoop([t1 EXCEPT !.expr_eval_width = Max(@, r.v.n)], i + 1)

AllOps(t) == [i \in 1..Len(t.op) |-> i]

Expr_resolve_expr_width(t) ==
    LET a == MinWidthLoop([t EXCEPT !.expr_eval_width = 1], 1)
    IN  IF IsErr(a.v) THEN a
        ELSE PropagateOps(a.t, AllOps(a.t), a.t.expr_eval_width)

\* propagate_eval_width that forwards w to the operands and does not store it
Expr_propagate_eval_width_NoStore(t, w) ==
    PropagateOps(t, AllOps(t), w)

Expr_propagate_eval_width(t, w) ==
    PropagateOps([t EXCEPT !.expr_eval_width = w], AllOps(t), w)

\* max(self.op[i].get_min_eval_width(), self.op[j].get_min_eval_width())
MinWidth2(t, i, j) ==
    LET a == get_min_eval_width(t.op[i])
        t1 == SetOp(t, i, a.t)
        b == get_min_eval_width(t1.op[j])
        t2 == SetOp(t1, j, b.t)
    IN  IF IsErr(a.v) THEN Ret(t1, a.v)
        ELSE IF IsErr(b.v) THEN Ret(t2, b.v)
        ELSE Ret(t2, IntV(Max(a.v.n, b.v.n)))

MinWidth1(t, i) ==
    LET a == get_min_eval_width(t.op[i])
    IN  Ret(SetOp(t, i, a.t), a.v)

BoolExpr_resolve_expr_width(t) == Ret(t, NoneV)

BoolExpr_propagate_eval_width(t, w) == ResolveOps(t, <<1, 2>>)

ExpShiftExpr_resolve_expr_width(t) ==
    LET a == MinWidth1(t, 1)
        t1 == [a.t EXCEPT !.expr_eval_width = a.v.n]
    IN  IF IsErr(a.v) THEN a
        ELSE PropagateOps(t1, <<1>>, t1.expr_eval_width)

ExpShiftExpr_propagate_eval_width(t, w) ==
    LET a == PropagateOps([t EXCEPT !.expr_eval_width = w], <<1>>, w)
    IN  IF IsErr(a.v) THEN a ELSE ResolveOps(a.t, <<2>>)

TernaryExpr_resolve_expr_width(t) ==
    LET a == MinWidth2(t, 2, 3)
        t1 == [a.t EXCEPT !.expr_eval_width = Max(1, a.v.n)]
    IN  IF IsErr(a.v) THEN a
        ELSE PropagateOps(t1, <<2, 3>>, t1.expr_eval_width)

TernaryExpr_propagate_eval_width(t, w) ==
    LET a == PropagateOps([t EXCEPT !.expr_eval_width = w], <<2, 3>>, w)
    IN  IF IsErr(a.v) THEN a ELSE ResolveOps(a.t, <<1>>)

WidthCast_resolve_cast_width(t) ==
    IF t.cast_width # None THEN Ret(t, NoneV)
    ELSE LET a == ResolveOps(t, <<2>>)
             g == get_value(a.t.op[2])
             t1 == SetOp(a.t, 2, g.t)
         IN  IF IsErr(a.v) THEN a
             ELSE IF IsErr(g.v) THEN Ret(t1, g.v)
             ELSE Ret([t1 EXCEPT !.cast_width = g.v.n], NoneV)

WidthCast_resolve_expr_width(t) ==
    LET c == WidthCast_resolve_cast_width(t)
        t1 == [c.t EXCEPT !.expr_eval_width = c.t.cast_width]
        a == MinWidth1(t1, 1)
        t2 == [a.t EXCEPT !.expr_eval_width = Max(@, a.v.n)]
    IN  IF IsErr(c.v) THEN c
        ELSE IF IsErr(a.v) THEN a
        ELSE PropagateOps(t2, <<1>>, t2.expr_eval_width)

WidthCast_get_min_eval_width(t) ==
    LET c == WidthCast_resolve_cast_width(t)
    IN  IF IsErr(c.v) THEN c ELSE Ret(c.t, IntV(c.t.cast_width))

get_min_eval_width_of(t) ==
    CASE t.kind = "IntLiteral" -> Ret(t, IntV(t.width))
      [] t.kind \in {"BuiltinEnumLiteral", "StringLiteral"} -> Ret(t, IntV(1))
      [] t.kind \in BinaryIntKinds -> MinWidth2(t, 1, 2)
      [] t.kind \in UnaryIntKinds -> MinWidth1(t, 1)
      [] t.kind \in RelationalKinds \cup ReductionKinds \cup BoolKinds -> Ret(t, IntV(1))
      [] t.kind \in ExpShiftKinds -> MinWidth1(t, 1)
      [] t.kind = "TernaryExpr" -> MinWidth2(t, 2, 3)
      [] t.kind = "WidthCast" -> WidthCast_get_min_eval_width(t)
      [] t.kind = "BoolCast" -> Ret(t, IntV(1))
      [] t.kind = "AssignmentCast" -> MinWidth1(t, 1)

resolve_expr_width_of(t) ==
    CASE t.kind \in BoolKinds -> BoolExpr_resolve_expr_width(t)
      [] t.kind \in ExpShiftKinds -> ExpShiftExpr_resolve_expr_width(t)
      [] t.kind = "TernaryExpr" -> TernaryExpr_resolve_expr_width(t)
      [] t.kind = "WidthCast" -> WidthCast_resolve_expr_width(t)
      [] OTHER -> Expr_resolve_expr_width(t)

\* _RelationalExpr without its propagate_eval_width override
SeveringKinds_RelationalInherits ==
    ReductionKinds \cup {"WidthCast", "BoolCast", "AssignmentCast"}

\* the overrides that ignore w and call self.resolve_expr_width()
SeveringKinds == RelationalKinds \cup ReductionKinds \cup {"WidthCast", "BoolCast", "AssignmentCast"}

propagate_eval_width_of(t, w) ==
    CASE t.kind \in SeveringKinds -> resolve_expr_width(t)
      [] t.kind \in BoolKinds -> BoolExpr_propagate_eval_width(t, w)
      [] t.kind \in ExpShiftKinds -> ExpShiftExpr_propagate_eval_width(t, w)
      [] t.kind = "TernaryExpr" -> TernaryExpr_propagate_eval_width(t, w)
      [] OTHER -> Expr_propagate_eval_width(t, w)

\* ---------------------------------------------------------------------------
\* get_value

\* get_ops of the two-operand classes: l = conv(op[0].get_value()),
\* r = conv(op[1].get_value()); conv is "int" or "bool"
Convert(conv, v) == IF conv = "int" THEN PyInt(v) ELSE PyBool(v)

GetOps2(t, conv) ==
    LET a == get_value(t.op[1])
        t1 == SetOp(t, 1, a.t)
        l == Convert(conv, a.v)
        b == get_value(t1.op[2])
        t2 == SetOp(t1, 2, b.t)
        r == Convert(conv, b.v)
    IN  IF IsErr(a.v) THEN [t |-> t1, v |-> a.v, l |-> 0, r |-> 0]
        ELSE IF IsErr(l) THEN [t |-> t1, v |-> l, l |-> 0, r |-> 0]
        ELSE IF IsErr(b.v) THEN [t |-> t2, v |-> b.v, l |-> 0, r |-> 0]
        ELSE IF IsErr(r) THEN [t |-> t2, v |-> r, l |-> 0, r |-> 0]
        ELSE [t |-> t2, v |-> NoneV, l |-> l.n, r |-> r.n]

\* n = int(self.op[0].get_value())
GetOps1(t) ==
    LET a == get_value(t.op[1])
        t1 == SetOp(t, 1, a.t)
        n == PyInt(a.v)
    IN  IF IsErr(a.v) THEN [t |-> t1, v |-> a.v, n |-> 0]
        ELSE IF IsErr(n) THEN [t |-> t1, v |-> n, n |-> 0]
        ELSE [t |-> t1, v |-> NoneV, n |-> n.n]

\* the expression each _BinaryIntExpr subclass hands to trunc
BinaryInt_compute(kind, l, r) ==
    CASE kind = "Add" -> IntV(l + r)
      [] kind = "Sub" -> IntV(l - r)
      [] kind = "Mult" -> IntV(l * r)
      [] kind = "Div" -> IF r = 0 THEN Raise("ZeroDivisionError") ELSE IntV(l \div r)
      [] kind = "Mod" -> IF r = 0 THEN Raise("ZeroDivisionError") ELSE IntV(l % r)
      [] kind = "BitwiseAnd" -> IntV(BitAnd(l, r))
      [] kind = "BitwiseOr" -> IntV(BitOr(l, r))
      [] kind = "BitwiseXor" -> IntV(BitXor(l, r))
      [] kind = "BitwiseXnor" -> IntV(BitXor(l, BitNot(r)))

BinaryInt_get_value(t) ==
    LET o == GetOps2(t, "int")
        x == BinaryInt_compute(t.kind, o.l, o.r)
    IN  IF IsErr(o.v) THEN Ret(o.t, o.v)
        ELSE IF IsErr(x) THEN Ret(o.t, x)
        ELSE Ret(o.t, trunc(o.t, x.n))

UnaryInt_get_value(t) ==
    LET o == GetOps1(t)
        x == CASE t.kind = "UnaryPlus" -> o.n
               [] t.kind = "UnaryMinus" -> 0 - o.n
               [] t.kind = "BitwiseInvert" -> BitNot(o.n)
    IN  IF IsErr(o.v) THEN Ret(o.t, o.v) ELSE Ret(o.t, trunc(o.t, x))

Relational_get_value(t) ==
    LET o == GetOps2(t, "int")
        x == CASE t.kind = "Eq" -> o.l = o.r
               [] t.kind = "Neq" -> o.l # o.r
               [] t.kind = "Lt" -> o.l < o.r
               [] t.kind = "Gt" -> o.l > o.r
               [] t.kind = "Leq" -> o.l <= o.r
               [] t.kind = "Geq" -> o.l >= o.r
    IN  IF IsErr(o.v) THEN Ret(o.t, o.v) ELSE Ret(o.t, BoolV(x))

\* the while(n) loop of XorReduce / XnorReduce: v the running parity, i the
\* iterations so far.  n >>= 1 leaves -1 at -1, so on a negative n the loop
\* never ends.
RECURSIVE ParityLoop(_, _, _)
ParityLoop(n, v, i) ==
    IF n = 0 THEN [v |-> v, iterations |-> i, ends |-> TRUE]
    ELSE IF n = 0 - 1 THEN [v |-> v, iterations |-> i, ends |-> FALSE]
    ELSE ParityLoop(n \div 2, IF BitAnd(n, 1) # 0 THEN BitXor(v, 1) ELSE v, i + 1)

ParityScan(n, v) == ParityLoop(n, v, 0).v

AndReduce_get_value(t) ==
    LET o == GetOps1(t)
        n == trunc(o.t, BitNot(o.n))
    IN  IF IsErr(o.v) THEN Ret(o.t, o.v)
        ELSE IF IsErr(n) THEN Ret(o.t, n)
        ELSE Ret(o.t, IntV(IF n.n = 0 THEN 1 ELSE 0))

NandReduce_get_value(t) ==
    LET o == GetOps1(t)
    IN  IF IsErr(o.v) THEN Ret(o.t, o.v) ELSE Ret(o.t, IntV(IF o.n # 0 THEN 1 ELSE 0))

OrReduce_get_value(t) ==
    LET o == GetOps1(t)
    IN  IF IsErr(o.v) THEN Ret(o.t, o.v) ELSE Ret(o.t, IntV(IF o.n # 0 THEN 1 ELSE 0))

NorReduce_get_value(t) ==
    LET o == GetOps1(t)
    IN  IF IsErr(o.v) THEN Ret(o.t, o.v) ELSE Ret(o.t, IntV(IF o.n = 0 THEN 1 ELSE 0))

XorReduce_get_value(t) ==
    LET o == GetOps1(t)
    IN  IF IsErr(o.v) THEN Ret(o.t, o.v) ELSE Ret(o.t, IntV(ParityScan(o.n, 0)))

XnorReduce_get_value(t) ==
    LET o == GetOps1(t)
    IN  IF IsErr(o.v) THEN Ret(o.t, o.v) ELSE Ret(o.t, IntV(ParityScan(o.n, 1)))

\* `not self.op[0]`: the operand is the node object, which is truthy
BoolNot_get_value(t) == Ret(t, BoolV(FALSE))

BoolExpr_get_value(t) ==
    LET o == GetOps2(t, "bool")
        x == IF t.kind = "BoolAnd" THEN o.l # 0 /\ o.r # 0 ELSE o.l # 0 \/ o.r # 0
    IN  IF IsErr(o.v) THEN Ret(o.t, o.v) ELSE Ret(o.t, BoolV(x))

ExpShift_get_value(t) ==
    LET o == GetOps2(t, "int")
        x == CASE t.kind = "Exponent" -> Pow(o.l, o.r)
               [] t.kind = "LShift" -> o.l * Pow(2, o.r)
               [] t.kind = "RShift" -> o.l \div Pow(2, o.r)
    IN  IF IsErr(o.v) THEN Ret(o.t, o.v) ELSE Ret(o.t, trunc(o.t, x))

TernaryExpr_get_value(t) ==
    LET a == get_value(t.op[1])
        t1 == SetOp(t, 1, a.t)
        j == get_value(t1.op[2])
        t2 == SetOp(t1, 2, j.t)
        k == get_value(t2.op[3])
        t3 == SetOp(t2, 3, k.t)
    IN  IF IsErr(a.v) THEN Ret(t1, a.v)
        ELSE IF IsErr(j.v) THEN Ret(t2, j.v)
        ELSE IF IsErr(k.v) THEN Ret(t3, k.v)
        ELSE IF PyBool(a.v).n # 0 THEN Ret(t3, j.v) ELSE Ret(t3, k.v)

\* a width cast whose assignment is the wrong way round:
\* self.cast_width = self.expr_eval_width
WidthCast_get_value_OverwritesCastWidth(t) ==
    LET o == GetOps1(t)
        t1 == [o.t EXCEPT !.cast_width = o.t.expr_eval_width]
    IN  IF IsErr(o.v) THEN Ret(o.t, o.v)
        ELSE Ret(t1, IntV(BitAnd(o.n, Pow(2, t1.cast_width) - 1)))

\* a width cast that truncates to its evaluation width
WidthCast_get_value_EvalWidth(t) ==
    LET o == GetOps1(t)
    IN  IF IsErr(o.v) THEN Ret(o.t, o.v) ELSE Ret(o.t, trunc(o.t, o.n))

WidthCast_get_value(t) ==
    LET o == GetOps1(t)
        t1 == [o.t EXCEPT !.expr_eval_width = o.t.cast_width]
    IN  IF IsErr(o.v) THEN Ret(o.t, o.v) ELSE Ret(t1, trunc(t1, o.n))

BoolCast_get_value(t) ==
    LET o == GetOps1(t)
    IN  IF IsErr(o.v) THEN Ret(o.t, o.v) ELSE Ret(o.t, BoolV(o.n # 0))

AssignmentCast_get_value(t) ==
    LET a == get_value(t.op[1])
        t1 == SetOp(t, 1, a.t)
        n == PyInt(a.v)
    IN  IF IsErr(a.v) THEN Ret(t1, a.v)
        ELSE IF t.dest_type = "bool" THEN Ret(t1, PyBool(a.v))
        ELSE IF t.dest_type = "Bit"
             THEN IF IsErr(n) THEN Ret(t1, n) ELSE Ret(t1, IntV(BitAnd(n.n, 1)))
        ELSE Ret(t1, a.v)

get_value_of(t) ==
    CASE t.kind = "IntLiteral" -> Ret(t, IntV(t.val))
      [] t.kind = "BuiltinEnumLiteral" -> Ret(t, EnumV)
      [] t.kind = "StringLiteral" -> Ret(t, StrV)
      [] t.kind \in BinaryIntKinds -> BinaryInt_get_value(t)
      [] t.kind \in UnaryIntKinds -> UnaryInt_get_value(t)
      [] t.kind \in RelationalKinds -> Relational_get_value(t)
      [] t.kind = "AndReduce" -> AndReduce_get_value(t)
      [] t.kind = "NandReduce" -> NandReduce_get_value(t)
      [] t.kind = "OrReduce" -> OrReduce_get_value(t)
      [] t.kind = "NorReduce" -> NorReduce_get_value(t)
      [] t.kind = "XorReduce" -> XorReduce_get_value(t)
      [] t.kind = "XnorReduce" -> XnorReduce_get_value(t)
      [] t.kind = "BoolNot" -> BoolNot_get_value(t)
      [] t.kind \in BoolKinds -> BoolExpr_get_value(t)
      [] t.kind \in ExpShiftKinds -> ExpShift_get_value(t)
      [] t.kind = "TernaryExpr" -> TernaryExpr_get_value(t)
      [] t.kind = "WidthCast" -> WidthCast_get_value(t)
      [] t.kind = "BoolCast" -> BoolCast_get_value(t)
      [] t.kind = "AssignmentCast" -> AssignmentCast_get_value(t)

Call(method, t, w) ==
    CASE method = "get_min_eval_width" -> get_min_eval_width_of(t)
      [] method = "resolve_expr_width" -> resolve_expr_width_of(t)
      [] method = "propagate_eval_width" -> propagate_eval_width_of(t, w)
      [] method = "get_value" -> get_value_of(t)

\* ---------------------------------------------------------------------------
\* The trees the parser hands over
LitWidths == 1..MaxWidth
IntLiterals == {IntLiteral(v, w) : v \in 0..MaxVal, w \in LitWidths}
Leaves == IntLiterals \cup {StringLiteral, BuiltinEnumLiteral}
\* the literals used as the other operands of a node built around `tree`
Operands == {IntLiteral(0, 1), IntLiteral(MaxVal, MaxWidth)}
Branches == Operands \cup {StringLiteral}

RECURSIVE Depth(_)
Depth(t) ==
    CASE Len(t.op) = 0 -> 0
      [] Len(t.op) = 1 -> 1 + Depth(t.op[1])
      [] Len(t.op) = 2 -> 1 + Max(Depth(t.op[1]), Depth(t.op[2]))
      [] Len(t.op) = 3 -> 1 + Max(Depth(t.op[1]), Max(Depth(t.op[2]), Depth(t.op[3])))

Init ==
    /\ tree \in Leaves
    /\ phase = "parsed"
    /\ ptype = "None"
    /\ arg = None
    /\ result = NoneV

CanGrow == phase = "parsed" /\ Depth(tree) < MaxDepth

Grow(t) ==
    /\ tree' = t
    /\ UNCHANGED <<phase, ptype, arg, result>>

\* the parser wraps the tree in a one-operand node
MkUnary ==
    /\ CanGrow
    /\ \E kind \in UnaryIntKinds \cup ReductionKinds \cup {"BoolCast"} :
        Grow(Node(kind, <<tree>>))

\* ... in a two-operand node, as its left or its right operand
MkBinary ==
    /\ CanGrow
    /\ \E kind \in BinaryIntKinds \cup RelationalKinds \cup BoolKinds \cup ExpShiftKinds :
        \E o \in Operands :
            \/ Grow(Node(kind, <<tree, o>>))
            \/ Grow(Node(kind, <<o, tree>>))

MkTernary ==
    /\ CanGrow
    /\ \E a \in Branches, b \in Branches :
        \/ Grow(Node("TernaryExpr", <<tree, a, b>>))
        \/ Grow(Node("TernaryExpr", <<a, tree, b>>))
        \/ Grow(Node("TernaryExpr", <<a, b, tree>>))

MkWidthCast ==
    /\ CanGrow
    /\ \/ \E w_int \in LitWidths : Grow(WidthCastInt(tree, w_int))
       \/ \E o \in Operands : Grow(WidthCastExpr(tree, o))
       \/ \E o \in Operands : Grow(WidthCastExpr(o, tree))

MkAssignmentCast ==
    /\ CanGrow
    /\ \E dest_type \in DestTypes : Grow(AssignmentCast(tree, dest_type))

\* ---------------------------------------------------------------------------
\* The consumer: predict_type once, then resolve_expr_width on the context
\* root (or propagate_eval_width(w) when the tree is an operand of an
\* enclosing context of width w), then get_value.
PredictType ==
    /\ phase = "parsed"
    /\ ptype' = predict_type(tree)
    /\ phase' = "typed"
    /\ UNCHANGED <<tree, arg, result>>

ResolveExprWidth ==
    /\ phase = "typed"
    /\ ptype \in DestTypes
    /\ LET r == resolve_expr_width(tree)
       IN  /\ tree' = r.t
           /\ result' = r.v
    /\ phase' = "resolved"
    /\ UNCHANGED <<ptype, arg>>

PropagateEvalWidth ==
    /\ phase = "typed"
    /\ ptype \in DestTypes
    /\ \E w \in 1..(MaxWidth + 1) :
        /\ arg' = w
        /\ LET r == propagate_eval_width(tree, w)
           IN  /\ tree' = r.t
               /\ result' = r.v
    /\ phase' = "propagated"
    /\ UNCHANGED ptype

GetValue ==
    /\ phase \in {"resolved", "propagated"}
    /\ ~IsErr(result)
    /\ LET r == get_value(tree)
       IN  /\ tree' = r.t
           /\ result' = r.v
    /\ phase' = "evaluated"
    /\ UNCHANGED <<ptype, arg>>

\* get_min_eval_width on the root, as the parent of an operand calls it before
\* any width is resolved
GetMinEvalWidth ==
    /\ phase = "typed"
    /\ ptype \in DestTypes
    /\ LET r == get_min_eval_width(tree)
       IN  /\ tree' = r.t
           /\ result' = r.v
    /\ phase' = "measured"
    /\ UNCHANGED <<ptype, arg>>

Next ==
    \/ MkUnary
    \/ MkBinary
    \/ MkTernary
    \/ MkWidthCast
    \/ MkAssignmentCast
    \/ PredictType
    \/ ResolveExprWidth
    \/ PropagateEvalWidth
    \/ GetValue
    \/ GetMinEvalWidth

Spec == Init /\ [][Next]_vars

\* ---------------------------------------------------------------------------
\* trunc as a function of its own: a node whose width an enclosing context
\* has set, and any integer handed to it
MaxEvalWidth == MaxWidth + 2
TruncArgs == (0 - Pow(2, MaxEvalWidth))..Pow(2, MaxEvalWidth)

TruncInit ==
    /\ tree \in {propagate_eval_width(l, w).t : l \in IntLiterals, w \in 1..MaxEvalWidth}
    /\ phase = "propagated"
    /\ ptype = "int"
    /\ arg = None
    /\ result = NoneV

Trunc ==
    /\ phase = "propagated"
    /\ \E v \in TruncArgs :
        /\ arg' = v
        /\ result' = trunc(tree, v)
    /\ phase' = "truncated"
    /\ UNCHANGED <<tree, ptype>>

TruncAgain ==
    /\ phase = "truncated"
    /\ result' = trunc(tree, result.n)
    /\ phase' = "truncated twice"
    /\ UNCHANGED <<tree, ptype, arg>>

TruncNext == Trunc \/ TruncAgain

TruncSpec == TruncInit /\ [][TruncNext]_vars

\* ---------------------------------------------------------------------------
\* Vocabulary of the properties
RECURSIVE Subtrees(_)
Subtrees(t) == {t} \cup UNION {Subtrees(t.op[i]) : i \in 1..Len(t.op)}

\* the tree as the parser built it: no width cached yet
RECURSIVE Fresh(_)
Fresh(t) ==
    [t EXCEPT !.expr_eval_width = None,
              !.cast_width = IF t.kind = "WidthCast" /\ Len(t.op) = 2 THEN None ELSE @,
              !.op = [i \in 1..Len(t.op) |-> Fresh(t.op[i])]]

\* resolve_expr_width on a context root, then get_value
Evaluate(t) ==
    LET r == resolve_expr_width(t)
    IN  IF IsErr(r.v) THEN r ELSE get_value(r.t)

AsRoot == arg = None

\* ---------------------------------------------------------------------------
\* C1: after resolve_expr_width on the root, get_value on the root never
\* computes an arithmetic, bitwise, shift/exponent or AND-reduce node whose
\* expr_eval_width is still None.  trunc on such a node is what raises
\* TypeError; trees without a cast leave no other node to raise it.
NoCast(t) == \A n \in Subtrees(t) : n.kind # "WidthCast"

C1_WidthResolvedBeforeValue ==
    (phase = "evaluated" /\ AsRoot /\ NoCast(tree)) => result.ty # "TypeError"

\* C2: propagate_eval_width(w) on a relational, reduction, logical-boolean,
\* boolean-cast or width-cast node leaves the same widths in its subtree, and
\* the same value, whatever w is.
IsolatedKinds == RelationalKinds \cup ReductionKinds \cup BoolKinds \cup {"BoolCast", "WidthCast"}

C2_ContextIsolation ==
    (phase = "propagated" /\ tree.kind \in IsolatedKinds) =>
        \A w \in 1..(MaxWidth + 2) :
            LET r == propagate_eval_width(Fresh(tree), w)
            IN  /\ r.t = tree
                /\ r.v = result
                /\ get_value(r.t).v = get_value(tree).v

C2_Witness ==
    /\ phase = "propagated"
    /\ tree.kind \in RelationalKinds
    /\ tree.op[1].kind \in BinaryIntKinds
    /\ arg = MaxWidth + 1
    /\ tree.expr_eval_width = MaxWidth
    /\ tree.op[1].expr_eval_width = MaxWidth

\* C3: a shift or exponent root gives the same width and the same value when
\* its right operand is replaced by an integer literal of the same value, of
\* any width.
C3_ShiftRightOperandIndependence ==
    (phase = "evaluated" /\ AsRoot /\ tree.kind \in ExpShiftKinds) =>
        LET parsed == Fresh(tree)
            r == Evaluate(parsed.op[2])
        IN  ~IsErr(r.v) =>
                \A w \in 1..(MaxWidth + 2) :
                    LET other == Evaluate(SetOp(parsed, 2, IntLiteral(r.v.n, w)))
                    IN  /\ other.v = result
                        /\ other.t.expr_eval_width = tree.expr_eval_width

\* C4: after resolve_expr_width on a root built only of context-determined
\* numeric operators over integer literals, the root and every operator node
\* hold max(1, the largest literal width).
ContextDetermined(t) ==
    \A n \in Subtrees(t) : n.kind \in BinaryIntKinds \cup UnaryIntKinds \cup {"IntLiteral"}

RECURSIVE MaxLiteralWidth(_)
MaxLiteralWidth(t) ==
    CASE Len(t.op) = 0 -> t.width
      [] Len(t.op) = 1 -> MaxLiteralWidth(t.op[1])
      [] Len(t.op) = 2 -> Max(MaxLiteralWidth(t.op[1]), MaxLiteralWidth(t.op[2]))

C4_OneWidthPerContext ==
    (phase = "resolved" /\ tree.kind # "IntLiteral" /\ ContextDetermined(tree)) =>
        \A n \in Subtrees(tree) :
            n.kind # "IntLiteral" => n.expr_eval_width = Max(1, MaxLiteralWidth(tree))

C4_Witness ==
    /\ phase = "resolved"
    /\ tree.kind \in BinaryIntKinds
    /\ tree.op[1].kind \in BinaryIntKinds \cup UnaryIntKinds
    /\ tree.op[2].width = MaxWidth
    /\ MaxLiteralWidth(tree.op[1]) = 1
    /\ tree.op[1].expr_eval_width = MaxWidth

\* C5: trunc(x) on a node of width w >= 1 is x mod 2^w, a value of
\* 0 .. 2^w - 1, and trunc of that value is the value again: result is
\* trunc(arg) after Trunc and trunc(trunc(arg)) after TruncAgain.
C5_TruncIsModulo ==
    (phase \in {"truncated", "truncated twice"} /\ tree.expr_eval_width >= 1) =>
        LET m == Pow(2, tree.expr_eval_width)
        IN  /\ result = IntV(arg % m)
            /\ result.n \in 0..(m - 1)

C5_Witness ==
    /\ phase = "truncated twice"
    /\ arg < 0
    /\ tree.expr_eval_width = 2
    /\ result = IntV(3)

\* C6: NandReduce, NorReduce and XnorReduce return the inverse of AndReduce,
\* OrReduce and XorReduce on the same operand at the same width.
BaseReduction(kind) ==
    CASE kind = "NandReduce" -> "AndReduce"
      [] kind = "NorReduce" -> "OrReduce"
      [] kind = "XnorReduce" -> "XorReduce"

C6_ComplementedReductions ==
    (phase = "evaluated" /\ tree.kind \in {"NandReduce", "NorReduce", "XnorReduce"}
        /\ ~IsErr(result)) =>
        LET base == get_value([tree EXCEPT !.kind = BaseReduction(tree.kind)])
        IN  result.n = 1 - base.v.n

\* C7: a ternary with a numeric-like condition predicts int when both branches
\* are numeric-like, the common type when both have the same other type, and
\* raises the compile error otherwise.
C7_TernaryBranchTypes ==
    (phase = "typed" /\ tree.kind = "TernaryExpr") =>
        LET t_i == predict_type(tree.op[1])
            t_j == predict_type(tree.op[2])
            t_k == predict_type(tree.op[3])
        IN  (t_i \in NumericLike /\ t_j \in DestTypes /\ t_k \in DestTypes) =>
                ptype = IF t_j \in NumericLike /\ t_k \in NumericLike THEN "int"
                        ELSE IF t_j = t_k THEN t_j
                        ELSE "RDLCompileError"

\* C8: predict_type on the root raises the compile error whenever some node of
\* the tree has an operand of an incompatible type, wherever that node is.
OperandTypes(n) == [i \in 1..Len(n.op) |-> predict_type(n.op[i])]

Compatible(n, ty) ==
    CASE n.kind = "TernaryExpr" ->
            /\ ty[1] \in NumericLike
            /\ \/ ty[2] \in NumericLike /\ ty[3] \in NumericLike
               \/ ty[2] = ty[3]
      [] n.kind = "AssignmentCast" ->
            IF n.dest_type \in NumericLike THEN ty[1] \in NumericLike
            ELSE ty[1] = n.dest_type
      [] OTHER -> \A i \in 1..Len(ty) : ty[i] \in NumericLike

Mismatch(n) ==
    LET ty == OperandTypes(n)
    IN  /\ \A i \in 1..Len(ty) : ty[i] \in DestTypes
        /\ ~Compatible(n, ty)

C8_EveryOperandIsChecked ==
    (phase = "typed" /\ \E n \in Subtrees(tree) : Mismatch(n)) =>
        ptype = "RDLCompileError"

C8_Witness ==
    /\ phase = "typed"
    /\ tree.kind = "TernaryExpr"
    /\ tree.op[1].kind = "IntLiteral"
    /\ tree.op[1].val # 0
    /\ ~Mismatch(tree)
    /\ ~Mismatch(tree.op[2])
    /\ Mismatch(tree.op[3])
    /\ ptype = "RDLCompileError"

\* C9: get_value of a width cast is the value operand's value modulo
\* 2^(cast width), the cast width being w_int or the value of the width
\* sub-expression.
C9_CastTruncatesToCastWidth ==
    (phase = "evaluated" /\ tree.kind = "WidthCast" /\ ~IsErr(result)) =>
        LET v == get_value(tree.op[1]).v
            cw == IF Len(tree.op) = 2 THEN get_value(tree.op[2]).v.n
                  ELSE tree.cast_width
        IN  result = IntV(v.n % Pow(2, cw))

C9_Witness ==
    /\ phase = "evaluated"
    /\ tree.kind = "WidthCast"
    /\ Len(tree.op) = 2
    /\ tree.op[1].kind = "IntLiteral"
    /\ tree.op[1].val = 3
    /\ tree.op[1].width = 2
    /\ tree.cast_width = 1
    /\ result = IntV(1)

\* C10: when the right operand of Div or Mod evaluates to 0, get_value ends in
\* the compile error.
C10_DivisionByZeroIsCompileError ==
    (phase = "evaluated" /\ tree.kind \in {"Div", "Mod"}
        /\ get_value(tree.op[2]).v = IntV(0)) =>
        result.ty = "RDLCompileError"

\* C11: get_value, get_min_eval_width and predict_type leave expr_eval_width
\* and cast_width of every node as they were: the tree after get_value is the
\* tree after resolution, and the tree after get_min_eval_width or
\* predict_type is the tree as parsed.
AfterResolution ==
    IF AsRoot THEN resolve_expr_width(Fresh(tree)).t
    ELSE propagate_eval_width(Fresh(tree), arg).t

C11_OnlyResolutionChangesWidths ==
    /\ phase = "evaluated" => tree = AfterResolution
    /\ phase = "measured" => tree = Fresh(tree)
    /\ phase = "typed" => tree = Fresh(tree)

\* C11 as the code has it: the same, but for width casts.  get_value of a
\* width cast sets its expr_eval_width to its cast_width; get_min_eval_width
\* of a width cast whose cast_width is still None resolves the widths of the
\* width sub-expression and sets cast_width.  a is the tree before the call,
\* b the tree after it.
RECURSIVE FrameOfGetValue(_, _)
FrameOfGetValue(a, b) ==
    /\ b.kind = a.kind
    /\ Len(b.op) = Len(a.op)
    /\ b.cast_width = a.cast_width
    /\ IF a.kind = "WidthCast"
       THEN /\ b.expr_eval_width \in {a.expr_eval_width, a.cast_width}
            /\ FrameOfGetValue(a.op[1], b.op[1])
            /\ Len(a.op) = 2 => b.op[2] = a.op[2]
       ELSE /\ b.expr_eval_width = a.expr_eval_width
            /\ \A i \in 1..Len(a.op) : FrameOfGetValue(a.op[i], b.op[i])

RECURSIVE FrameOfGetMinEvalWidth(_, _)
FrameOfGetMinEvalWidth(a, b) ==
    /\ b.kind = a.kind
    /\ Len(b.op) = Len(a.op)
    /\ b.expr_eval_width = a.expr_eval_width
    /\ IF a.kind = "WidthCast"
       THEN /\ b.cast_width = a.cast_width \/ (a.cast_width = None /\ Len(a.op) = 2)
            /\ FrameOfGetMinEvalWidth(a.op[1], b.op[1])
       ELSE /\ b.cast_width = a.cast_width
            /\ \A i \in 1..Len(a.op) : FrameOfGetMinEvalWidth(a.op[i], b.op[i])

C11_WidthFrameButForCasts ==
    /\ phase = "evaluated" => FrameOfGetValue(AfterResolution, tree)
    /\ phase = "measured" => FrameOfGetMinEvalWidth(Fresh(tree), tree)
    /\ phase = "typed" => tree = Fresh(tree)

C11_Witness ==
    /\ phase = "evaluated"
    /\ tree.kind \in UnaryIntKinds
    /\ tree.op[1].kind = "WidthCast"
    /\ tree.op[1].expr_eval_width = tree.op[1].cast_width
    /\ AfterResolution.op[1].expr_eval_width > tree.op[1].cast_width
    /\ tree.expr_eval_width = AfterResolution.expr_eval_width

\* C12: get_value of XorReduce and of XnorReduce terminates, and its loop runs
\* at most as many iterations as the node's resolved evaluation width.
ParityKinds == {"XorReduce", "XnorReduce"}

C12_ParityScanWithinWidth ==
    (phase = "evaluated" /\ tree.kind \in ParityKinds /\ ~IsErr(result))
        => LET loop == ParityLoop(GetOps1(tree).n, 0, 0)
           IN  /\ loop.ends
               /\ loop.iterations <= tree.expr_eval_width

====
